---- MODULE Spec2Model ----
(***************************************************************************)
(* Model of the authentication gate, the image-delete POST handler and the *)
(* auth-status GET handlers of gpt-image-1-playground.                     *)
(*                                                                         *)
(* Strings of the program are sequences of one-character strings, so that  *)
(* String.includes and String.endsWith are computed, not assumed.          *)
(***************************************************************************)
EXTENDS Integers, Sequences, FiniteSets

VARIABLES env, dir, req, pc, idx, deletionResults, unlinkCalls, authorized,
          resp, authReq, authResp,
          dirBefore,    \* history: dir when the current image-delete request began
          deletedEver,  \* history: the files unlink has removed so far
          served        \* history: first answer given to each observed header

vars == <<env, dir, req, pc, idx, deletionResults, unlinkCalls, authorized,
          resp, authReq, authResp, dirBefore, deletedEver, served>>

(***************************************************************************)
(* Bounds                                                                  *)
(***************************************************************************)
MaxClaims == 2
MaxFiles == 2

(***************************************************************************)
(* JavaScript values                                                       *)
(***************************************************************************)
\* the value undefined (a missing property); no string equals it
Undefined == <<"undefined">>

\* a value whose typeof is not 'string' (a number in a filenames array)
NotAString == <<"number">>

\* truthiness of a string-or-undefined value: '' and undefined are falsy
Truthy(s) == s # Undefined /\ s # <<>>

\* String.prototype.includes
Includes(s, sub) ==
    \E k \in 1..(Len(s) - Len(sub) + 1) : SubSeq(s, k, k + Len(sub) - 1) = sub

\* String.prototype.endsWith
EndsWith(s, suf) ==
    /\ Len(s) >= Len(suf)
    /\ SubSeq(s, Len(s) - Len(suf) + 1, Len(s)) = suf

\* bounded sequences over S
SeqUpTo(S, n) == UNION {[1..k -> S] : k \in 0..n}

(***************************************************************************)
(* The x-ms-client-principal header and its decoding                       *)
(***************************************************************************)
NoClaims == [t |-> "undefined", items |-> <<>>]
NullValue == [t |-> "null", userId |-> Undefined, userDetails |-> Undefined,
              identityProvider |-> Undefined, claims |-> NoClaims]
NumberValue == [t |-> "number", userId |-> Undefined, userDetails |-> Undefined,
                identityProvider |-> Undefined, claims |-> NoClaims]

\* a header is absent, the empty string, text that is not base64, base64 of
\* text that is not JSON, or base64 of the JSON value val
Header(kind, val) == [kind |-> kind, val |-> val]
AbsentHeader == Header("absent", NullValue)

\* request.headers.get(...) is truthy
HeaderPresent(h) == h.kind \notin {"absent", "empty"}

\* atob(userPrincipal) followed by JSON.parse(decodedPrincipal)
DecodePrincipal(h) ==
    IF h.kind = "notBase64" THEN [threw |-> TRUE, val |-> NullValue]
    ELSE IF h.kind = "notJson" THEN [threw |-> TRUE, val |-> NullValue]
    ELSE [threw |-> FALSE, val |-> h.val]

\* a claim of the claims array; null marks a JSON null element
Claim(typ, val) == [null |-> FALSE, typ |-> typ, val |-> val]
NullClaim == [null |-> TRUE, typ |-> Undefined, val |-> Undefined]

RECURSIVE FindFrom(_, _, _)
FindFrom(items, typ, k) ==
    IF k > Len(items) THEN [threw |-> FALSE, found |-> FALSE, val |-> Undefined]
    ELSE IF items[k].null THEN [threw |-> TRUE, found |-> FALSE, val |-> Undefined]
    ELSE IF items[k].typ = typ THEN [threw |-> FALSE, found |-> TRUE, val |-> items[k].val]
    ELSE FindFrom(items, typ, k + 1)

MutFindClaimLast(claims, typ) ==
    IF claims.t = "undefined" THEN [threw |-> FALSE, found |-> FALSE, val |-> Undefined]
    ELSE IF claims.t = "notArray" THEN [threw |-> TRUE, found |-> FALSE, val |-> Undefined]
    ELSE IF \E k \in 1..Len(claims.items) : claims.items[k].null
    THEN [threw |-> TRUE, found |-> FALSE, val |-> Undefined]
    ELSE IF \E k \in 1..Len(claims.items) : claims.items[k].typ = typ
    THEN LET last == CHOOSE k \in 1..Len(claims.items) :
                        /\ claims.items[k].typ = typ
                        /\ \A j \in (k + 1)..Len(claims.items) : claims.items[j].typ # typ
         IN [threw |-> FALSE, found |-> TRUE, val |-> claims.items[last].val]
    ELSE [threw |-> FALSE, found |-> FALSE, val |-> Undefined]

\* userInfo.claims?.find((c) => c.typ === typ) on a non-null userInfo
FindClaim(claims, typ) ==
    IF claims.t = "undefined" THEN [threw |-> FALSE, found |-> FALSE, val |-> Undefined]
    ELSE IF claims.t = "notArray" THEN [threw |-> TRUE, found |-> FALSE, val |-> Undefined]
    ELSE FindFrom(claims.items, typ, 1)

(***************************************************************************)
(* image-delete: isUserAuthenticated                                       *)
(***************************************************************************)
\* crypto.createHash('sha256').update(data).digest('hex'), collision free
sha256(data) == <<"sha256:">> \o data

\* the request body of image-delete
NoBody == [t |-> "none", passwordHash |-> Undefined,
           filenames |-> [t |-> "undefined", items |-> <<>>]]
Body(t, ph, fns) == [t |-> t, passwordHash |-> ph, filenames |-> fns]

\* lines 46-52: the tenant claim decides
TenantDecision(f, tenant) ==
    IF ~f.found \/ f.val # tenant THEN "deny" ELSE "allow"

MutSsoIgnoresUserId(header, e) ==
    IF ~HeaderPresent(header) THEN "fallthrough"
    ELSE LET d == DecodePrincipal(header) IN
         IF d.threw \/ d.val.t = "null" THEN "fallthrough"
         ELSE "allow"

\* lines 37-57: "allow" is return true, "deny" is return false, "fallthrough"
\* is reaching line 59 (also through the catch block)
SsoPath(header, e) ==
    IF ~HeaderPresent(header) THEN "fallthrough"
    ELSE LET d == DecodePrincipal(header) IN
         IF d.threw THEN "fallthrough"
         ELSE IF d.val.t = "null" THEN "fallthrough"
         ELSE IF ~Truthy(d.val.userId) THEN "fallthrough"
         ELSE IF Truthy(e.AZURE_TENANT_ID)
              THEN LET f == FindClaim(d.val.claims, <<"t", "i", "d">>) IN
                   IF f.threw THEN "fallthrough"
                   ELSE TenantDecision(f, e.AZURE_TENANT_ID)
              ELSE "allow"

\* lines 60-71: "TypeError" is the property read on a null body
PasswordPath(body, e) ==
    IF Truthy(e.APP_PASSWORD)
    THEN IF body.t = "null" THEN "TypeError"
         ELSE IF Truthy(body.passwordHash)
                 /\ body.passwordHash = sha256(e.APP_PASSWORD)
              THEN "true" ELSE "false"
    ELSE "false"

isUserAuthenticated(header, body, e) ==
    LET sso == SsoPath(header, e) IN
    IF sso = "allow" THEN "true"
    ELSE IF sso = "deny" THEN "false"
    ELSE PasswordPath(body, e)

(***************************************************************************)
(* Configuration and stored files                                          *)
(***************************************************************************)
Tenant1 == <<"t", "1">>
Tenant2 == <<"t", "2">>
Password == <<"p", "w">>

\* process.env; an unset variable and an empty one are both falsy (<<>>)
Envs == [AZURE_TENANT_ID : {<<>>, Tenant1}, APP_PASSWORD : {<<>>, Password}]

\* files that may exist in generated-images
StoredNames == {<<"a">>, <<"b">>}
\* "protected": the entry exists and unlink fails with EACCES
FileStates == {"absent", "file", "protected"}

Principal(userId, claims) ==
    [t |-> "object", userId |-> userId, userDetails |-> <<"n">>,
     identityProvider |-> <<"a", "a", "d">>, claims |-> claims]
ClaimArray(items) == [t |-> "array", items |-> items]
TidClaim(v) == Claim(<<"t", "i", "d">>, v)

(***************************************************************************)
(* image-delete: POST                                                      *)
(***************************************************************************)
NoFilenames == [t |-> "undefined", items |-> <<>>]
FilenameArray(items) == [t |-> "array", items |-> items]

NoReq == [route |-> "none", header |-> AbsentHeader, body |-> NoBody]
NoResp == [status |-> 0, error |-> "", message |-> "", hasResults |-> FALSE,
           results |-> <<>>]
ErrorResp(status, error) ==
    [status |-> status, error |-> error, message |-> "", hasResults |-> FALSE,
     results |-> <<>>]

MutInvalidFilenameNoBackslash(filename) ==
    \/ ~Truthy(filename)
    \/ Includes(filename, <<".", ".">>)
    \/ Includes(filename, <<"/">>)

\* line 105
InvalidFilename(filename) ==
    \/ ~Truthy(filename)
    \/ Includes(filename, <<".", ".">>)
    \/ Includes(filename, <<"/">>)
    \/ Includes(filename, <<"\\">>)

\* line 94
FilenamesWellFormed(body) ==
    /\ body.filenames.t = "array"
    /\ \A k \in 1..Len(body.filenames.items) : body.filenames.items[k] # NotAString

MutUnlinkOutcomeAlwaysEnoent(d, filename) ==
    IF filename \in DOMAIN d /\ d[filename] = "file" THEN "ok" ELSE "ENOENT"

\* lines 111-114: fs.unlink(path.join(outputDir, filename)) for a filename that
\* passed line 105; path.join normalises '.' to outputDir itself
UnlinkOutcome(d, filename) ==
    IF filename = <<".">> THEN "EISDIR"
    ELSE IF filename \notin DOMAIN d THEN "ENOENT"
    ELSE IF d[filename] = "absent" THEN "ENOENT"
    ELSE IF d[filename] = "protected" THEN "EACCES"
    ELSE "ok"

Result(filename, success, error) ==
    [filename |-> filename, success |-> success, error |-> error]

\* lines 116-123
UnlinkResult(filename, outcome) ==
    IF outcome = "ok" THEN Result(filename, TRUE, "")
    ELSE IF outcome = "ENOENT" THEN Result(filename, FALSE, "File not found.")
    ELSE Result(filename, FALSE, "Failed to delete file.")

\* line 127
allSucceeded(results) == \A k \in 1..Len(results) : results[k].success

MutFinalStatusAnySucceeded(results) ==
    IF \E k \in 1..Len(results) : results[k].success THEN 200 ELSE 207

\* line 134
FinalStatus(results) == IF allSucceeded(results) THEN 200 ELSE 207

\* lines 129-135
FinalResp(results) ==
    [status |-> FinalStatus(results), error |-> "",
     message |-> IF allSucceeded(results) THEN "All files deleted successfully."
                 ELSE "Some files could not be deleted.",
     hasResults |-> TRUE, results |-> results]

MutEarlyRespNoAuthCheck(body, auth) ==
    IF body.t = "badJson" \/ auth = "TypeError"
    THEN ErrorResp(400, "Invalid request body: Must be JSON.")
    ELSE IF body.t = "null"
    THEN ErrorResp(500, "TypeError")
    ELSE IF ~FilenamesWellFormed(body)
    THEN ErrorResp(400, "Invalid filenames: Must be an array of strings.")
    ELSE IF Len(body.filenames.items) = 0
    THEN [status |-> 200, error |-> "", message |-> "No filenames provided to delete.",
          hasResults |-> TRUE, results |-> <<>>]
    ELSE NoResp

\* lines 77-100: the response decided before the loop, or NoResp when the
\* loop is entered; status 500 is the TypeError of line 92 escaping
EarlyResp(body, auth) ==
    IF body.t = "badJson" \/ auth = "TypeError"
    THEN ErrorResp(400, "Invalid request body: Must be JSON.")
    ELSE IF auth = "false"
    THEN ErrorResp(401, "Unauthorized: Authentication required.")
    ELSE IF body.t = "null"
    THEN ErrorResp(500, "TypeError")
    ELSE IF ~FilenamesWellFormed(body)
    THEN ErrorResp(400, "Invalid filenames: Must be an array of strings.")
    ELSE IF Len(body.filenames.items) = 0
    THEN [status |-> 200, error |-> "", message |-> "No filenames provided to delete.",
          hasResults |-> TRUE, results |-> <<>>]
    ELSE NoResp

\* lines 80-83: isUserAuthenticated is called once the body has parsed
GateResult(header, body, e) ==
    IF body.t = "badJson" THEN "notCalled" ELSE isUserAuthenticated(header, body, e)

\* lines 74-102
PostBegin(header, body) ==
    /\ pc = "idle"
    /\ LET auth == GateResult(header, body, env)
           early == EarlyResp(body, auth)
       IN /\ authorized' = auth
          /\ resp' = early
          /\ pc' = IF early = NoResp THEN "loop" ELSE "done"
    /\ req' = [route |-> "image-delete", header |-> header, body |-> body]
    /\ idx' = 1
    /\ deletionResults' = <<>>
    /\ unlinkCalls' = <<>>
    /\ dirBefore' = dir
    /\ UNCHANGED <<env, dir, authReq, authResp, deletedEver, served>>

\* lines 125-135 once the loop has consumed every filename
AfterIteration(results) ==
    IF idx = Len(req.body.filenames.items)
    THEN /\ resp' = FinalResp(results)
         /\ pc' = "done"
    ELSE /\ resp' = resp
         /\ pc' = "loop"

\* lines 105-109
RejectFilename ==
    /\ pc = "loop"
    /\ LET filename == req.body.filenames.items[idx] IN
       /\ InvalidFilename(filename)
       /\ deletionResults' =
              Append(deletionResults, Result(filename, FALSE, "Invalid filename format."))
       /\ AfterIteration(deletionResults')
    /\ idx' = idx + 1
    /\ UNCHANGED <<env, dir, req, unlinkCalls, authorized, authReq, authResp,
                   dirBefore, deletedEver, served>>

MutUnlinkedEvenWhenProtected(d, filename, outcome) ==
    IF outcome \in {"ok", "EACCES"} THEN [d EXCEPT ![filename] = "absent"] ELSE d

MutUnlinkedKeepsFile(d, filename, outcome) == d

\* line 114: the directory after fs.unlink returned or threw
Unlinked(d, filename, outcome) ==
    IF outcome = "ok" THEN [d EXCEPT ![filename] = "absent"] ELSE d

\* lines 111-124
UnlinkFile ==
    /\ pc = "loop"
    /\ LET filename == req.body.filenames.items[idx]
           outcome == UnlinkOutcome(dir, filename)
       IN /\ ~InvalidFilename(filename)
          /\ unlinkCalls' = Append(unlinkCalls, filename)
          /\ dir' = Unlinked(dir, filename, outcome)
          /\ deletedEver' = IF outcome = "ok" THEN deletedEver \cup {filename}
                             ELSE deletedEver
          /\ deletionResults' = Append(deletionResults, UnlinkResult(filename, outcome))
          /\ AfterIteration(deletionResults')
    /\ idx' = idx + 1
    /\ UNCHANGED <<env, req, authorized, authReq, authResp, dirBefore, served>>

(***************************************************************************)
(* The auth-status GET handlers                                            *)
(***************************************************************************)
\* the JavaScript value null
Null == <<"null">>

\* '@herzogdemeuron.com'
Suffix == <<"@", "h", "e", "r", "z", "o", "g", "d", "e", "m", "e", "u", "r", "o",
            "n", ".", "c", "o", "m">>

EmailClaim(v) == Claim(<<"e", "m", "a", "i", "l">>, v)
NameClaim(v) == Claim(<<"n", "a", "m", "e">>, v)

NullUser == [null |-> TRUE, id |-> Undefined, name |-> Undefined,
             email |-> Undefined, provider |-> Undefined]
User(id, name, email, provider) ==
    [null |-> FALSE, id |-> id, name |-> name, email |-> email, provider |-> provider]

Denied(reason) ==
    [sent |-> TRUE, authenticated |-> FALSE, user |-> NullUser, reason |-> reason]
Granted(user) ==
    [sent |-> TRUE, authenticated |-> TRUE, user |-> user, reason |-> ""]

\* emailClaim?.val || alt
ValOr(f, alt) == IF f.found /\ Truthy(f.val) THEN f.val ELSE alt

MutEmailAllowedIncludes(userEmail) == Includes(userEmail, Suffix)

\* userEmail.endsWith('@herzogdemeuron.com')
EmailAllowed(userEmail) == EndsWith(userEmail, Suffix)

MutSsoAuthStatusSession(header) ==
    IF authorized = "true"
    THEN Granted(User(<<"u">>, <<"n">>, <<"a">> \o Suffix, <<"a", "a", "d">>))
    ELSE IF ~HeaderPresent(header) THEN Denied("")
    ELSE LET d == DecodePrincipal(header) IN
         IF d.threw \/ d.val.t = "null" THEN Denied("")
         ELSE LET f == FindClaim(d.val.claims, <<"e", "m", "a", "i", "l">>)
                  userEmail == ValOr(f, <<>>)
              IN IF f.threw THEN Denied("")
                 ELSE IF ~EmailAllowed(userEmail) THEN Denied("")
                 ELSE Granted(User(d.val.userId, d.val.userDetails, userEmail,
                                   d.val.identityProvider))

\* sso-auth-status/route.ts lines 36-76
SsoAuthStatus(header) ==
    IF ~HeaderPresent(header) THEN Denied("")
    ELSE LET d == DecodePrincipal(header) IN
         IF d.threw \/ d.val.t = "null" THEN Denied("")
         ELSE LET f == FindClaim(d.val.claims, <<"e", "m", "a", "i", "l">>)
                  userEmail == ValOr(f, <<>>)
              IN IF f.threw THEN Denied("")
                 ELSE IF ~EmailAllowed(userEmail) THEN Denied("")
                 ELSE Granted(User(d.val.userId, d.val.userDetails, userEmail,
                                   d.val.identityProvider))

\* part_001 lines 20-22: the request is refused for its tenant
TenantRejected(f, tenant) == Truthy(tenant) /\ (~f.found \/ f.val # tenant)

\* part_001 lines 7-46
TenantAuthStatus(header, e) ==
    IF ~HeaderPresent(header) THEN Denied("")
    ELSE LET d == DecodePrincipal(header) IN
         IF d.threw \/ d.val.t = "null" THEN Denied("")
         ELSE LET tid == FindClaim(d.val.claims, <<"t", "i", "d">>)
                  f == FindClaim(d.val.claims, <<"e", "m", "a", "i", "l">>)
              IN IF Truthy(e.AZURE_TENANT_ID) /\ tid.threw THEN Denied("")
                 ELSE IF TenantRejected(tid, e.AZURE_TENANT_ID) THEN Denied("")
                 ELSE IF f.threw THEN Denied("")
                 ELSE Granted(User(d.val.userId, d.val.userDetails, ValOr(f, Null),
                                   d.val.identityProvider))

\* the outcome of fetch('/.auth/me') and response.json(): the fetch throws,
\* the status is not ok, the body is not JSON, or the body is the JSON value
\* null, [] or [user]
NoAuthUser == [t |-> "null", user_id |-> Undefined, identity_provider |-> Undefined,
               user_claims |-> NoClaims]
AuthUser(user_id, user_claims) ==
    [t |-> "object", user_id |-> user_id, identity_provider |-> <<"a", "a", "d">>,
     user_claims |-> user_claims]
Fetch(kind, user) == [kind |-> kind, user |-> user]
NoFetch == Fetch("none", NoAuthUser)

\* sso-auth-status/route.ts lines 95-151
AuthMeStatus(fetch) ==
    IF fetch.kind \in {"throws", "notJson"} THEN Denied("Auth check failed")
    ELSE IF fetch.kind \in {"notOk", "null", "empty"} THEN Denied("No auth data found")
    ELSE IF fetch.user.t = "null" THEN Denied("Auth check failed")
    ELSE LET f == FindClaim(fetch.user.user_claims, <<"e", "m", "a", "i", "l">>)
             n == FindClaim(fetch.user.user_claims, <<"n", "a", "m", "e">>)
             userEmail == ValOr(f, <<>>)
         IN IF f.threw THEN Denied("Auth check failed")
            ELSE IF ~EmailAllowed(userEmail) THEN Denied("Invalid email domain")
            ELSE IF n.threw THEN Denied("Auth check failed")
            ELSE Granted(User(fetch.user.user_id, ValOr(n, fetch.user.user_id),
                              userEmail, fetch.user.identity_provider))

AuthRespond(route, header, fetch, response) ==
    /\ authReq.route = "none"
    /\ authReq' = [route |-> route, header |-> header, fetch |-> fetch]
    /\ authResp' = response
    /\ UNCHANGED <<env, dir, req, pc, idx, deletionResults, unlinkCalls, authorized, resp,
                   dirBefore, deletedEver>>

(***************************************************************************)
(* Requests of the image-delete specification                              *)
(***************************************************************************)
FilenamePool == {<<>>, <<"a">>, <<"b">>, <<".">>, <<"a", ".", ".">>,
                 <<"/", "a">>, <<"\\", "a">>}

DeleteHeaders ==
    {AbsentHeader,
     Header("notBase64", NullValue),
     Header("json", Principal(Undefined, ClaimArray(<<TidClaim(Tenant1)>>))),
     Header("json", Principal(<<"u">>, ClaimArray(<<TidClaim(Tenant1)>>))),
     Header("json", Principal(<<"u">>, ClaimArray(<<TidClaim(Tenant2)>>)))}

DeleteBodies ==
    {Body("badJson", Undefined, NoFilenames), Body("null", Undefined, NoFilenames),
     Body("number", Undefined, NoFilenames), Body("string", Undefined, NoFilenames)}
    \cup {Body("object", ph, fns) :
            ph \in {Undefined, sha256(Password), Password},
            fns \in {NoFilenames, [t |-> "notArray", items |-> <<>>]}
                    \cup {FilenameArray(items) :
                            items \in SeqUpTo(FilenamePool \cup {NotAString}, MaxFiles)}}

NoAuthReq == [route |-> "none", header |-> AbsentHeader, fetch |-> NoFetch]
NoAuthResp == [sent |-> FALSE, authenticated |-> FALSE, user |-> NullUser, reason |-> ""]

\* the headers whose auth-status answers are recorded in served
ObservedHeaders ==
    {AbsentHeader,
     Header("json", Principal(<<"u">>, ClaimArray(<<EmailClaim(<<"a">> \o Suffix)>>))),
     Header("json", Principal(<<"u">>, ClaimArray(<<EmailClaim(<<"a", "@", "x">>)>>)))}

\* no answer recorded; again is set once a header has been answered twice
NotServed == [sent |-> FALSE, authenticated |-> FALSE, user |-> NullUser, again |-> FALSE]

Init ==
    /\ env \in Envs
    /\ dir \in [StoredNames -> FileStates]
    /\ req = NoReq
    /\ pc = "idle"
    /\ idx = 1
    /\ deletionResults = <<>>
    /\ unlinkCalls = <<>>
    /\ authorized = "notCalled"
    /\ resp = NoResp
    /\ authReq = NoAuthReq
    /\ authResp = NoAuthResp
    /\ dirBefore = dir
    /\ deletedEver = {}
    /\ served = [h \in ObservedHeaders |-> NotServed]

POST ==
    /\ pc = "idle"
    /\ \E header \in DeleteHeaders, body \in DeleteBodies : PostBegin(header, body)

\* the response has been sent; the request's data is discarded
Finish ==
    /\ pc = "done"
    /\ pc' = "idle"
    /\ req' = NoReq
    /\ idx' = 1
    /\ deletionResults' = <<>>
    /\ unlinkCalls' = <<>>
    /\ authorized' = "notCalled"
    /\ resp' = NoResp
    /\ dirBefore' = dir
    /\ UNCHANGED <<env, dir, authReq, authResp, deletedEver, served>>

Next == POST \/ RejectFilename \/ UnlinkFile \/ Finish

Spec == Init /\ [][Next]_vars

(***************************************************************************)
(* The gate over every shape of header, password hash and configuration    *)
(***************************************************************************)
Outsider == <<"a", "@", "x", ".", "c", "o", "m">>

GateClaimPool == {TidClaim(Tenant1), TidClaim(Tenant2), EmailClaim(Outsider), NullClaim}

HeadersOver(pool) ==
    {AbsentHeader, Header("empty", NullValue), Header("notBase64", NullValue),
     Header("notJson", NullValue), Header("json", NullValue), Header("json", NumberValue)}
    \cup {Header("json", Principal(userId, claims)) :
            userId \in {Undefined, <<>>, <<"u">>},
            claims \in {NoClaims, [t |-> "notArray", items |-> <<>>]}
                       \cup {ClaimArray(items) : items \in SeqUpTo(pool, MaxClaims)}}

GateHeaders == HeadersOver(GateClaimPool)

GateBodies ==
    {Body("badJson", Undefined, NoFilenames), Body("null", Undefined, NoFilenames),
     Body("number", Undefined, NoFilenames)}
    \cup {Body("object", ph, FilenameArray(<<>>)) :
            ph \in {Undefined, <<>>, Password, sha256(Password), sha256(Tenant1)}}

POSTGate ==
    /\ pc = "idle"
    /\ \E header \in GateHeaders, body \in GateBodies : PostBegin(header, body)

NextGate == POSTGate \/ Finish

SpecGate == Init /\ [][NextGate]_vars

(***************************************************************************)
(* The auth-status handlers over every shape of header and fetch outcome   *)
(***************************************************************************)
Emails == {<<"a">> \o Suffix, <<"b">> \o Suffix, Suffix, <<"a">> \o Suffix \o <<"x">>,
           <<"a", "@", "H">> \o Tail(Tail(Suffix)), <<"a">> \o Tail(Suffix),
           Outsider, <<>>}

AuthClaimPool ==
    {EmailClaim(v) : v \in Emails}
    \cup {TidClaim(Tenant1), TidClaim(Tenant2), NameClaim(<<"n">>), NullClaim}

AuthHeaders == HeadersOver(AuthClaimPool)

Fetches ==
    {Fetch(kind, NoAuthUser) : kind \in {"throws", "notOk", "notJson", "null", "empty", "users"}}
    \cup {Fetch("users", AuthUser(user_id, claims)) :
            user_id \in {Undefined, <<"u">>},
            claims \in {NoClaims, [t |-> "notArray", items |-> <<>>]}
                       \cup {ClaimArray(items) : items \in SeqUpTo(AuthClaimPool, MaxClaims)}}

\* GET of sso-auth-status/route.ts, the header-reading handler
GET_SsoAuthStatus ==
    /\ authReq.route = "none"
    /\ \E header \in AuthHeaders :
         AuthRespond("sso-auth-status", header, NoFetch, SsoAuthStatus(header))
    /\ UNCHANGED served

\* GET of part_001, the tenant variant
GET_TenantAuthStatus ==
    /\ authReq.route = "none"
    /\ \E header \in AuthHeaders :
         AuthRespond("auth-status", header, NoFetch, TenantAuthStatus(header, env))
    /\ UNCHANGED served

\* GET of the /.auth/me variant
GET_AuthMe ==
    /\ authReq.route = "none"
    /\ \E fetch \in Fetches :
         AuthRespond("auth-me", AbsentHeader, fetch, AuthMeStatus(fetch))
    /\ UNCHANGED served

\* the response has been sent
AuthFinish ==
    /\ authReq.route # "none"
    /\ authReq' = NoAuthReq
    /\ authResp' = NoAuthResp
    /\ UNCHANGED served
    /\ UNCHANGED <<env, dir, req, pc, idx, deletionResults, unlinkCalls, authorized, resp,
                   dirBefore, deletedEver>>

NextAuth == GET_SsoAuthStatus \/ GET_TenantAuthStatus \/ GET_AuthMe \/ AuthFinish

SpecAuth == Init /\ [][NextAuth]_vars

(***************************************************************************)
(* image-delete and the header-reading auth-status handler interleaved     *)
(***************************************************************************)
InterleavedBodies ==
    {Body("object", Undefined, FilenameArray(items)) :
        items \in SeqUpTo({<<"a">>, <<"b">>, <<"/", "a">>}, MaxFiles)}

POSTInterleaved ==
    /\ pc = "idle"
    /\ \E header \in ObservedHeaders, body \in InterleavedBodies : PostBegin(header, body)

\* the answer as served records it
Recorded(response) ==
    [sent |-> TRUE, authenticated |-> response.authenticated, user |-> response.user,
     again |-> FALSE]

\* GET of sso-auth-status/route.ts; served keeps the first answer per header
GET_SsoAuthStatusObserved ==
    /\ authReq.route = "none"
    /\ \E header \in ObservedHeaders :
         /\ AuthRespond("sso-auth-status", header, NoFetch, SsoAuthStatus(header))
         /\ served' = [served EXCEPT ![header] =
                          IF served[header].sent THEN [served[header] EXCEPT !.again = TRUE]
                          ELSE Recorded(SsoAuthStatus(header))]

NextInterleaved ==
    \/ POSTInterleaved \/ RejectFilename \/ UnlinkFile \/ Finish
    \/ GET_SsoAuthStatusObserved \/ AuthFinish

SpecInterleaved == Init /\ [][NextInterleaved]_vars

(***************************************************************************)
(* Properties                                                              *)
(***************************************************************************)
Tid == <<"t", "i", "d">>
Email == <<"e", "m", "a", "i", "l">>

\* the filenames array of the current image-delete request
Items == req.body.filenames.items

\* the loop of the current request has been entered
InLoop == pc = "loop" \/ (pc = "done" /\ authorized = "true"
                           /\ FilenamesWellFormed(req.body) /\ Len(Items) > 0)

\* the filename contains '..', '/' or '\'
Traversal(fn) ==
    \/ \E k \in 1..Len(fn) : fn[k] \in {"/", "\\"}
    \/ \E k \in 1..(Len(fn) - 1) : fn[k] = "." /\ fn[k + 1] = "."

\* the value of the first claim of the given type, as find locates it
HasClaim(claims, typ) ==
    /\ claims.t = "array"
    /\ \E k \in 1..Len(claims.items) :
         /\ ~claims.items[k].null /\ claims.items[k].typ = typ
         /\ \A j \in 1..(k - 1) : ~claims.items[j].null
FirstClaim(claims, typ) ==
    LET k == CHOOSE i \in 1..Len(claims.items) :
                 /\ ~claims.items[i].null /\ claims.items[i].typ = typ
                 /\ \A j \in 1..(i - 1) : ~claims.items[j].null /\ claims.items[j].typ # typ
    IN claims.items[k].val

\* the claims are absent or a sequence of (type, value) pairs
ClaimsWellFormed(claims) ==
    \/ claims.t = "undefined"
    \/ claims.t = "array" /\ \A k \in 1..Len(claims.items) : ~claims.items[k].null

\* the header decodes to a JSON object
DecodesToObject(h) == h.kind = "json" /\ h.val.t = "object"

\* the header decodes to an identity assertion: userId and well-formed claims
IsAssertion(h) ==
    DecodesToObject(h) /\ Truthy(h.val.userId) /\ ClaimsWellFormed(h.val.claims)

\* s ends with '@herzogdemeuron.com', character by character
HasSuffix(s) ==
    /\ s # Undefined
    /\ Len(s) >= 19
    /\ \A k \in 1..19 : s[Len(s) - 19 + k] = Suffix[k]

\* C1: a filename containing '..', '/' or '\' is never passed to unlink, its
\* result entry is the invalid-filename failure whatever the other filenames
\* are, and an authorized request naming only such a filename is answered 207.
C1_TraversalRejected ==
    /\ \A k \in 1..Len(unlinkCalls) : ~Traversal(unlinkCalls[k])
    /\ \A k \in 1..Len(deletionResults) :
         Traversal(Items[k]) =>
             deletionResults[k] = Result(Items[k], FALSE, "Invalid filename format.")
    /\ (pc = "done" /\ InLoop) =>
         /\ resp.results = deletionResults
         /\ Len(resp.results) = Len(Items)
         /\ (Len(Items) = 1 /\ Traversal(Items[1])) => resp.status = 207

C1_Witness ==
    /\ pc = "done" /\ InLoop /\ Len(Items) = 2
    /\ Items[1] = <<"\\", "a">>
    /\ resp.results[1].error = "Invalid filename format."
    /\ resp.results[2].success

\* C2: when isUserAuthenticated returns false the handler answers 401 without
\* a results field, has made no unlink call and leaves the directory as it was.
C2_UnauthorizedNoSideEffects ==
    [][authorized' = "false" =>
          /\ pc' = "done"
          /\ resp'.status = 401
          /\ ~resp'.hasResults
          /\ unlinkCalls' = <<>>
          /\ dir' = dir]_vars

C2_Witness ==
    /\ authorized = "false" /\ resp.status = 401
    /\ req.body.filenames.t = "array" /\ Len(Items) > 0
    /\ Items[1] \in DOMAIN dir /\ dir[Items[1]] = "file"

\* C3: isUserAuthenticated returns true exactly when the SSO path succeeds
\* (an identity with userId whose tenant is accepted) or the password-hash
\* path succeeds (APP_PASSWORD set and passwordHash is its SHA-256 digest).
C3_SsoSucceeds ==
    /\ DecodesToObject(req.header) /\ Truthy(req.header.val.userId)
    /\ \/ ~Truthy(env.AZURE_TENANT_ID)
       \/ /\ HasClaim(req.header.val.claims, Tid)
          /\ FirstClaim(req.header.val.claims, Tid) = env.AZURE_TENANT_ID
C3_PasswordSucceeds ==
    /\ Truthy(env.APP_PASSWORD)
    /\ req.body.passwordHash = sha256(env.APP_PASSWORD)
C3_EitherPathAuthorizes ==
    authorized \in {"true", "false"} =>
        (authorized = "true" <=> (C3_SsoSucceeds \/ C3_PasswordSucceeds))

\* the assertion of the current header-reading auth-status request
AuthVal == authReq.header.val

\* C4: in the header-reading handler an identity assertion whose first email
\* claim ends with '@herzogdemeuron.com' is answered authenticated=true with
\* user = {id: userId, name: userDetails, email: that claim's value,
\* provider: identityProvider}, whatever claims follow the first email claim.
C4_AllowedEmailAuthenticated ==
    (/\ authReq.route = "sso-auth-status"
     /\ IsAssertion(authReq.header)
     /\ HasClaim(AuthVal.claims, Email)
     /\ HasSuffix(FirstClaim(AuthVal.claims, Email)))
    => /\ authResp.authenticated
       /\ authResp.user = User(AuthVal.userId, AuthVal.userDetails,
                               FirstClaim(AuthVal.claims, Email),
                               AuthVal.identityProvider)

C4_Witness ==
    /\ authReq.route = "sso-auth-status"
    /\ IsAssertion(authReq.header)
    /\ AuthVal.claims.items = <<EmailClaim(<<"a">> \o Suffix), EmailClaim(Outsider)>>
    /\ authResp.authenticated
    /\ authResp.user.email = <<"a">> \o Suffix

\* the claims the current auth-status request resolves its email and tenant from
AuthClaims ==
    IF authReq.route = "auth-me" THEN authReq.fetch.user.user_claims
    ELSE AuthVal.claims
EmailPasses == HasClaim(AuthClaims, Email) /\ HasSuffix(FirstClaim(AuthClaims, Email))
TenantMatches ==
    /\ authReq.route = "auth-status"
    /\ HasClaim(AuthClaims, Tid)
    /\ FirstClaim(AuthClaims, Tid) = env.AZURE_TENANT_ID

C6_FailSafe ==
    (/\ authReq.route = "sso-auth-status"
     /\ \/ ~HeaderPresent(authReq.header)
        \/ authReq.header.kind \in {"notBase64", "notJson"}
        \/ authReq.header.kind = "json" /\ AuthVal.userId = Undefined)
    => (authResp.sent /\ ~authResp.authenticated /\ authResp.user.null)

\* the body is JSON with a filenames field that is an array of strings
BodyWellFormed ==
    /\ req.body.t = "object"
    /\ req.body.filenames.t = "array"
    /\ \A k \in 1..Len(Items) : Items[k] # NotAString

\* C7: the handler only answers 200, 207, 400 or 401, and a body that is not
\* JSON with a string-array filenames is answered 400, or 401 when the request
\* is not authorized, without any unlink call.
C7_MalformedBodyClientError ==
    (pc = "done" /\ req.route = "image-delete") =>
        /\ resp.status \in {200, 207, 400, 401}
        /\ ~BodyWellFormed =>
             /\ resp.status \in {400, 401}
             /\ resp.status = 401 => authorized = "false"
             /\ unlinkCalls = <<>>

\* C8: an authorized request with a well-formed filenames array is answered
\* 200 exactly when the array is empty or every entry succeeded and 207
\* exactly when some entry failed, with the per-item results in both cases;
\* an empty array gives results [] and no unlink call.
C8_StatusAggregates ==
    (pc = "done" /\ authorized = "true" /\ BodyWellFormed) =>
        /\ resp.hasResults
        /\ Len(resp.results) = Len(Items)
        /\ resp.status = 200 <=>
             (Len(Items) = 0 \/ \A k \in 1..Len(resp.results) : resp.results[k].success)
        /\ resp.status = 207 <=>
             \E k \in 1..Len(resp.results) : ~resp.results[k].success
        /\ Len(Items) = 0 => (resp.results = <<>> /\ unlinkCalls = <<>>)

C8_Witness ==
    /\ pc = "done" /\ authorized = "true" /\ BodyWellFormed
    /\ Len(Items) = 2
    /\ resp.status = 200
    /\ dir[<<"a">>] = "absent" /\ dir[<<"b">>] = "absent"

\* C9: a header decoding to an identity with a non-empty userId authorizes
\* the request whatever its email claim, passwordHash and APP_PASSWORD are,
\* provided no tenant id is configured or its tid claim equals the configured
\* one; an absent, undecodable or userId-less header authorizes only when the
\* password hash matches.
C9_SsoRestrictedToUserId ==
    authorized \in {"true", "false", "TypeError"} =>
        /\ (/\ DecodesToObject(req.header) /\ Truthy(req.header.val.userId)
            /\ \/ ~Truthy(env.AZURE_TENANT_ID)
               \/ /\ HasClaim(req.header.val.claims, Tid)
                  /\ FirstClaim(req.header.val.claims, Tid) = env.AZURE_TENANT_ID)
           => authorized = "true"
        /\ (\/ ~HeaderPresent(req.header)
            \/ req.header.kind \in {"notBase64", "notJson"}
            \/ req.header.kind = "json" /\ ~Truthy(req.header.val.userId))
           => (authorized = "true" =>
                   (/\ Truthy(env.APP_PASSWORD)
                    /\ req.body.passwordHash = sha256(env.APP_PASSWORD)))

C9_Witness ==
    /\ authorized = "true"
    /\ Truthy(env.AZURE_TENANT_ID)
    /\ ~Truthy(env.APP_PASSWORD)
    /\ req.body.passwordHash = Undefined
    /\ req.header.val.claims.items = <<EmailClaim(Outsider), TidClaim(Tenant1)>>

\* the path of a validated filename exists / is a file unlink can remove
PathExists(d, fn) == fn = <<".">> \/ (fn \in DOMAIN d /\ d[fn] # "absent")
Deletable(d, fn) == fn \in DOMAIN d /\ d[fn] = "file"

\* C10: the loop appends exactly one entry per filename, in request order, and
\* never aborts; the entry of a validated filename is success=true when the
\* file existed and was deleted, 'File not found.' when it does not exist and
\* 'Failed to delete file.' on any other failure; the response carries every
\* entry, with status 207 when one of them failed.
C10_LoopInvariant ==
    InLoop =>
        /\ Len(deletionResults) = idx - 1
        /\ Len(deletionResults) <= Len(Items)
        /\ \A k \in 1..Len(deletionResults) : deletionResults[k].filename = Items[k]
        /\ pc = "done" <=> Len(deletionResults) = Len(Items)
        /\ pc = "done" =>
             /\ resp.results = deletionResults
             /\ (\E k \in 1..Len(deletionResults) :
                    deletionResults[k].error = "File not found.") => resp.status = 207
C10_EntryStep ==
    Len(deletionResults') = Len(deletionResults) + 1 =>
        LET k == Len(deletionResults')
            fn == Items[k]
            r == deletionResults'[k]
        IN /\ SubSeq(deletionResults', 1, k - 1) = deletionResults
           /\ r.filename = fn
           /\ (fn # <<>> /\ ~Traversal(fn)) =>
                /\ Deletable(dir, fn) => (r.success /\ r.error = "" /\ dir'[fn] = "absent")
                /\ ~PathExists(dir, fn) => (~r.success /\ r.error = "File not found.")
                /\ (PathExists(dir, fn) /\ ~Deletable(dir, fn)) =>
                       (~r.success /\ r.error = "Failed to delete file." /\ dir' = dir)
C10_BatchNeverAborted == [](C10_LoopInvariant) /\ [][C10_EntryStep]_vars

C10_Witness ==
    /\ pc = "done" /\ InLoop /\ Len(Items) = 2
    /\ resp.results[1] = Result(<<"b">>, FALSE, "File not found.")
    /\ resp.results[2] = Result(<<"a">>, TRUE, "")
    /\ resp.status = 207

\* C11: an answer of the header-reading auth-status handler equals the first
\* answer given to the same header value, whatever image-delete and
\* auth-status requests were served before, between or meanwhile and whatever
\* the directory holds; an auth-status request leaves the directory unchanged.
C11_SameAnswer ==
    (authReq.route = "sso-auth-status" /\ authResp.sent) =>
        /\ served[authReq.header].sent
        /\ authResp.authenticated = served[authReq.header].authenticated
        /\ authResp.user = served[authReq.header].user
C11_DirUntouched == authReq' # authReq => dir' = dir
Entries == IF resp.hasResults THEN resp.results ELSE <<>>

\* C12: when an image-delete request has been answered, a file that was in
\* the directory before the request is absent exactly when the response has a
\* success=true entry for its name; nothing else in the directory changes, so
\* unnamed files, files named only by rejected filenames and every file of a
\* request answered 400 or 401 are as before. The same holds after every loop
\* iteration for the entries pushed so far.
C12_Frame ==
    req.route = "image-delete" =>
        /\ \A f \in DOMAIN dir :
             /\ dir[f] # dirBefore[f] => (dirBefore[f] # "absent" /\ dir[f] = "absent")
             /\ (dirBefore[f] # "absent" /\ dir[f] = "absent") <=>
                    (/\ dirBefore[f] # "absent"
                     /\ \E k \in 1..Len(deletionResults) :
                          deletionResults[k].filename = f /\ deletionResults[k].success)
        /\ pc = "done" =>
             /\ \A f \in DOMAIN dir :
                  (dirBefore[f] # "absent" /\ dir[f] = "absent") <=>
                      (/\ dirBefore[f] # "absent"
                       /\ \E k \in 1..Len(Entries) :
                            Entries[k].filename = f /\ Entries[k].success)
             /\ resp.status \in {400, 401} => dir = dirBefore
             /\ \A f \in DOMAIN dir :
                  (\A k \in 1..Len(Entries) :
                       Entries[k].filename # f \/ ~Entries[k].success)
                      => dir[f] = dirBefore[f]

C12_Witness ==
    /\ pc = "done" /\ InLoop
    /\ Items = <<(<<"/", "a">>), <<"b">>>>
    /\ dirBefore = [f \in StoredNames |-> "file"]
    /\ dir[<<"a">>] = "file" /\ dir[<<"b">>] = "absent"
    /\ ~resp.results[1].success /\ resp.results[2].success

\* the filename passes line 105
Accepted(fn) == fn # <<>> /\ ~Traversal(fn)

NotFound(fn) == Result(fn, FALSE, "File not found.")

\* C13: unlink is called for the accepted filenames one after the other in
\* request order; a second occurrence of a filename whose first occurrence
\* was deleted in the same request is reported 'File not found.', and so is a
\* filename deleted by an earlier request; the status is then 207. A request
\* naming an existing file twice is answered [success, 'File not found.'] with
\* status 207 and the file is gone.
C13_SequentialDuplicates ==
    InLoop =>
        /\ unlinkCalls = SelectSeq(SubSeq(Items, 1, Len(deletionResults)), Accepted)
        /\ \A j \in 1..Len(deletionResults) :
             /\ (\E k \in 1..(j - 1) : Items[k] = Items[j] /\ deletionResults[k].success)
                    => deletionResults[j] = NotFound(Items[j])
             /\ (Items[j] \in deletedEver /\ dirBefore[Items[j]] = "absent")
                    => deletionResults[j] = NotFound(Items[j])
        /\ pc = "done" =>
             /\ (\E j \in 1..Len(Items) :
                    \/ \E k \in 1..(j - 1) : Items[k] = Items[j] /\ resp.results[k].success
                    \/ Items[j] \in deletedEver /\ dirBefore[Items[j]] = "absent")
                    => resp.status = 207
             /\ (/\ Len(Items) = 2 /\ Items[1] = Items[2]
                 /\ Items[1] \in DOMAIN dirBefore /\ dirBefore[Items[1]] = "file")
                    => /\ resp.results = <<Result(Items[1], TRUE, ""), NotFound(Items[1])>>
                       /\ resp.status = 207
                       /\ dir[Items[1]] = "absent"

C13_Witness ==
    /\ pc = "done" /\ InLoop
    /\ Items = <<(<<"a">>), <<"a">>>>
    /\ dirBefore[<<"a">>] = "file"
    /\ resp.results[1].success
    /\ resp.results[2].error = "File not found."
    /\ resp.status = 207

====
